---- MODULE Spec2Model ----
(***************************************************************************)
(* Workspace snapshot engine of the MCX extension: PinataService           *)
(* (commitToIPFS, loadFromIPFS, syncFromIPFS, getCurrentCID) together with *)
(* the two command handlers of extension.ts that drive it.                 *)
(*                                                                         *)
(* A ContentId is modelled as the index of a blob in the store; the store  *)
(* is content addressed, so uploading bytes that are already stored yields *)
(* the index they already have.  0 stands for null / no CID.               *)
(*                                                                         *)
(* Specifications:                                                         *)
(*   Spec             the two commands, one at a time                      *)
(*   SpecConcurrent   the commit command run twice at once                 *)
(*   SpecCancel       Spec with a commit abandoned at an await             *)
(*   SpecCredentials  Spec under every configuration of the Pinata JWT     *)
(*   SpecPointInTime  commit, edit, commit, then restores of both CIDs     *)
(*   SpecScan         serializeWorkspaceState over long folder listings    *)
(*   SpecTyped        Spec over a store holding a blob of other types      *)
(*   SpecSubscriptions  the pluginButtonClicked subscription map           *)
(***************************************************************************)
EXTENDS Integers, Sequences, FiniteSets, TLC

(* ------------------------------ bounds -------------------------------- *)
MaxCalls == 2          \* commitToIPFS / restore invocations in one run
MaxEdits == 1          \* user edits of the workspace in one run
MaxFaults == 1         \* I/O operations that fail in one run
MaxRoots == 2          \* workspace folders of one workspace
MaxRequests == 3       \* subscribeToPluginButtonClicked requests in one run
MaxOthers == 1         \* binary or unreadable entries in front of / behind the text files
ManyFiles == 150       \* text files of a large workspace folder

(* --------------------------- program constants ------------------------ *)
FileCap == 100         \* uris.slice(0, 100)

Inst == {1, 2}         \* PinataService objects alive at the same time
NoCID == 0             \* null

(* ------------------------------ file system --------------------------- *)
PathOrder == <<"a.txt", "sub/b.txt">>      \* enumeration / insertion order
Paths == {PathOrder[k] : k \in 1..Len(PathOrder)}
Dirs == {"sub"}
Root == ""
Absent == <<-1>>

Parent(p) == IF p = "sub/b.txt" THEN "sub" ELSE Root

TextA == <<104>>
TextB == <<105>>
BinaryC == <<104, 0>>       \* contains a null byte
Latin1C == <<255>>          \* not valid UTF-8, no null byte
Contents == {TextA, TextB, BinaryC, Latin1C}

Replacement == 65533        \* U+FFFD

RECURSIVE Utf8Decode(_)
Utf8Decode(bytes) ==
    IF bytes = <<>> THEN <<>>
    ELSE IF Len(bytes) >= 3 /\ SubSeq(bytes, 1, 3) = <<239, 191, 189>>
         THEN <<Replacement>> \o Utf8Decode(SubSeq(bytes, 4, Len(bytes)))
    ELSE IF Head(bytes) < 128
         THEN <<Head(bytes)>> \o Utf8Decode(Tail(bytes))
    ELSE <<Replacement>> \o Utf8Decode(Tail(bytes))

RECURSIVE Utf8Encode(_)
Utf8Encode(text) ==
    IF text = <<>> THEN <<>>
    ELSE IF Head(text) < 128
         THEN <<Head(text)>> \o Utf8Encode(Tail(text))
    ELSE <<239, 191, 189>> \o Utf8Encode(Tail(text))

\* a check that takes every file for text
isTextFileAlways(text) == TRUE

\* !content.includes('\0')
isTextFile(text) == \A k \in 1..Len(text) : text[k] # 0

Min(a, b) == IF a < b THEN a ELSE b

(* ------------------------------- blobs -------------------------------- *)
(* A stored blob is the JSON value of a WorkspaceState.  version and       *)
(* workspaceId carry the kind of value found in the field.                 *)
FieldKinds == {"absent", "emptyString", "string", "number"}
Truthy(kind) == kind \in {"string", "number"}

NoFiles == [p \in {} |-> <<>>]

Blob(v, w, t, f, d) ==
    [version |-> v, workspaceId |-> w, timestamp |-> t, files |-> f, folders |-> d]

NoSnapshot == Blob("absent", "absent", 0, NoFiles, <<>>)

ForeignBlobs ==
    << Blob("string", "string", 0, [p \in Paths |-> Utf8Decode(TextB)], <<"sub">>),
       Blob("absent", "string", 0, [p \in {"a.txt"} |-> Utf8Decode(TextA)], <<"sub">>),
       Blob("string", "absent", 0, [p \in {"a.txt"} |-> Utf8Decode(TextA)], <<"sub">>) >>

\* a blob whose version is a number, as in { "version": 1, ... }
TypedBlob == Blob("number", "string", 0, [p \in {"a.txt"} |-> Utf8Decode(TextB)], <<>>)

ContentId(store, blob) ==
    IF \E k \in 1..Len(store) : store[k] = blob
    THEN CHOOSE k \in 1..Len(store) : store[k] = blob
    ELSE Len(store) + 1

Event(e, c, ok) == [e |-> e, cid |-> c, path |-> "", ok |-> ok]
FsEvent(e, p, ok) == [e |-> e, cid |-> 0, path |-> p, ok |-> ok]

VARIABLES
    fsFiles,        \* workspace folder: path -> bytes, or Absent
    fsDirs,         \* directories existing under the workspace folder
    settingsCID,    \* the workspace setting cline.workspace.ipfsCID
    blobs,          \* the blob store: CID -> blob
    pinned,         \* CIDs currently pinned
    clock,          \* Date.now() in milliseconds
    calls,          \* invocations started so far
    edits,          \* user edits so far
    faults,         \* failed I/O operations so far
    pinata,         \* per instance: this.pinata is set
    currentCID,     \* per instance: this.currentCID
    op,             \* per instance: the invocation in progress or finished
    pc,             \* per instance: position inside the invocation
    frame,          \* per instance: locals of the invocation
    log,            \* per instance: the effects issued by the invocation
    committed,      \* the successful commits, oldest first: the CID returned,
                    \* the workspace that was scanned, the entries skipped
    restored,       \* result of the latest successful restores
    credentials,    \* where a Pinata JWT is configured: settings, environment
    scan,           \* serializeWorkspaceState over large workspace folders
    ui              \* the pluginButtonClicked subscriptions and their requests

vars == <<fsFiles, fsDirs, settingsCID, blobs, pinned, clock, calls, edits, faults,
          pinata, currentCID, op, pc, frame, log, committed, restored,
          credentials, scan, ui>>

\* what no step of an invocation writes
fixed == <<credentials, scan, ui>>

envVars == <<fsFiles, fsDirs, settingsCID, blobs, pinned, clock>>


(* ----------------------------- invocations ---------------------------- *)
NoFrame ==
    [ arg |-> NoCID,              \* restore: the CID typed by the user
      snap |-> NoSnapshot,        \* workspaceState
      newCID |-> NoCID,           \* result.IpfsHash
      result |-> NoCID,           \* commitToIPFS return value, NoCID = null
      loaded |-> FALSE,           \* loadFromIPFS returned a workspace state
      synced |-> "none",          \* syncFromIPFS return value
      cause |-> "none",           \* the step whose error ended the invocation
      source |-> <<>>,            \* the workspace files the serializer scanned
      skipped |-> {},             \* entries skipped by the serializer
      written |-> {},             \* files written by syncFromIPFS
      failedWrite |-> {},         \* files whose writeFile threw
      diagnostics |-> {},         \* diagnostics carried by the return value
      beforeCurrent |-> NoCID,    \* this.currentCID at entry
      beforeSettings |-> NoCID,   \* workspace.ipfsCID at entry
      beforePointer |-> NoCID,    \* getCurrentCID() at entry
      beforeFiles |-> <<>>,       \* the files of the root at entry
      beforeDirs |-> {},          \* the directories of the root at entry
      changed |-> FALSE,          \* syncFromIPFS altered a file of the root
      jwt |-> "none",             \* the JWT handed to new PinataSDK
      afterFailedInit |-> FALSE ] \* the object's last call ended in initialize() = false

getCurrentCID(i) ==
    IF currentCID[i] # NoCID THEN currentCID[i] ELSE settingsCID

Quiet == \A j \in Inst : pc[j] \in {"idle", "done"}

(* ----------------------------- serializer ----------------------------- *)
findFiles(fs) == SelectSeq(PathOrder, LAMBDA p : fs[p] # Absent)

Slice(s, n) == SubSeq(s, 1, Min(Len(s), n))

SeqRange(s) == {s[k] : k \in 1..Len(s)}

\* the entries whose text ends up in files: stat and read succeed, no null byte
IncludedFiles(fs, unreadable) ==
    {p \in SeqRange(Slice(findFiles(fs), FileCap)) :
        p \notin unreadable /\ isTextFile(Utf8Decode(fs[p]))}

\* findFiles yields files only, so the Directory branch never adds an entry
IncludedFolders(fs, unreadable) ==
    SelectSeq(Slice(findFiles(fs), FileCap),
              LAMBDA p : p \in Dirs /\ p \notin unreadable)

serializeWorkspaceState(fs, unreadable, now) ==
    Blob("string", "string", now,
         [p \in IncludedFiles(fs, unreadable) |-> Utf8Decode(fs[p])],
         IncludedFolders(fs, unreadable))

\* what commitToIPFS hands back about skipped entries: its return type is
\* string | null, the skipped entries only reach console.warn
CommitDiagnostics(skippedEntries) == {}

(* --------------------- serializer, large folders ---------------------- *)
(* The same loop over workspace folders whose listings are long enough for *)
(* the slice to cut them.  An entry of a listing is the kind of file       *)
(* findFiles returned at that position; its key in files is the pair of    *)
(* its workspace folder and its position (asRelativePath of its uri).      *)
Listing(kind, a, n, b) ==
    [k \in 1..(a + n + b) |-> IF k <= a \/ k > a + n THEN kind ELSE "text"]

FolderSizes == {1, FileCap, ManyFiles}

Listings ==
    { Listing(kind, a, n, b) : kind \in {"binary", "unreadable"},
                               a \in 0..MaxOthers, n \in FolderSizes, b \in 0..MaxOthers }

NoScan == [roots |-> <<>>, pos |-> 0, files |-> {}, returned |-> FALSE]

\* for (const uri of uris.slice(0, 100)): stat or readFile throws for an
\* unreadable entry, isTextFile is false for a binary one
ScannedKeys(r, listing) ==
    LET uris == Slice(listing, FileCap)
    IN  {<<r, k>> : k \in {j \in 1..Len(uris) : uris[j] = "text"}}

(* ---------------------------- materializer ---------------------------- *)
\* a write that appends to the file
writeFileAppending(existing, bytes) == IF existing = Absent THEN bytes ELSE existing \o bytes

\* writeFile(uri, bytes) replaces the content of the file
writeFile(existing, bytes) == bytes

\* createDirectory(d): mkdir -p; the error is swallowed by the caller
createDirectory(dirs, d, failing) ==
    IF d = Root \/ d \in failing THEN dirs ELSE dirs \cup {d}

RECURSIVE CreateFolders(_, _, _)
CreateFolders(dirs, folders, failing) ==
    IF folders = <<>> THEN dirs
    ELSE CreateFolders(createDirectory(dirs, Head(folders), failing),
                       Tail(folders), failing)

CanWrite(dirs, p, unwritable) ==
    /\ p \notin unwritable
    /\ (Parent(p) = Root \/ Parent(p) \in dirs)

\* the file written before its parent directory is created
FileEventsWriteFirst(p, created, written) ==
    <<FsEvent("write", p, written), FsEvent("mkdir", Parent(p), created)>>

\* one turn of the file loop: createDirectory(parentUri), then writeFile
FileEvents(p, created, written) ==
    <<FsEvent("mkdir", Parent(p), created), FsEvent("write", p, written)>>

\* the file loop of syncFromIPFS: st is the state after the entries before
\* todo; an exception of writeFile leaves the loop (st.ok = FALSE)
RECURSIVE RestoreFiles(_, _, _, _, _)
RestoreFiles(st, todo, content, failing, unwritable) ==
    IF todo = <<>> THEN st
    ELSE LET p == Head(todo)
             d == createDirectory(st.dirs, Parent(p), failing)
         IN  IF CanWrite(d, p, unwritable)
             THEN RestoreFiles(
                    [st EXCEPT !.dirs = d,
                               !.files = [st.files EXCEPT
                                            ![p] = writeFile(@, Utf8Encode(content[p]))],
                               !.written = st.written \cup {p},
                               !.trace = st.trace \o
                                           FileEvents(p, Parent(p) \notin failing, TRUE)],
                    Tail(todo), content, failing, unwritable)
             ELSE [st EXCEPT !.dirs = d,
                             !.ok = FALSE,
                             !.failed = {p},
                             !.trace = st.trace \o
                                         FileEvents(p, Parent(p) \notin failing, FALSE)]

FolderEvents(folders, failing) ==
    [k \in 1..Len(folders) |-> FsEvent("mkdir", folders[k], folders[k] \notin failing)]

\* a loop that stops one entry short
EntriesButLast(files) ==
    LET all == SelectSeq(PathOrder, LAMBDA p : p \in DOMAIN files)
    IN  SubSeq(all, 1, Len(all) - 1)

\* Object.entries(files): insertion order
Entries(files) == SelectSeq(PathOrder, LAMBDA p : p \in DOMAIN files)

syncFromIPFS(files, dirs, state, failing, unwritable) ==
    RestoreFiles([files |-> files,
                  dirs |-> CreateFolders(dirs, state.folders, failing),
                  written |-> {}, failed |-> {}, ok |-> TRUE,
                  trace |-> FolderEvents(state.folders, failing)],
                 Entries(state.files), state.files, failing, unwritable)


(* ---------------------------- subscriptions --------------------------- *)
(* activePluginButtonClickedSubscriptions maps a controller id to the      *)
(* response stream of a request; a stream is named by the number of the    *)
(* request that brought it, 0 is no entry.                                 *)
Controllers == {"c1", "c2"}
NoStream == 0

NoSubscriptions ==
    [ subs |-> [c \in Controllers |-> NoStream],     \* the Map
      live |-> {},                                   \* requests in the registry
      issued |-> 0,                                  \* requests made so far
      latest |-> [c \in Controllers |-> NoStream],   \* last request of the controller
      failed |-> {},                                 \* streams that threw on send
      last |-> "none" ]                              \* outcome of the last send

\* const cleanup = () => { activePluginButtonClickedSubscriptions.delete(controllerId) }
MapAfterCleanup(subs, c, stream) == [subs EXCEPT ![c] = NoStream]

(* ------------------------------- Init --------------------------------- *)
Workspace(a, b) == [p \in Paths |-> IF p = "a.txt" THEN a ELSE b]

Workspaces ==
    { Workspace(TextA, TextB), Workspace(TextA, BinaryC), Workspace(Latin1C, Absent) }

\* The store already holds blobs the engine did not write; an earlier run
\* of the extension may have left a CID in the workspace settings.
InitStore(store) ==
    /\ fsFiles \in Workspaces
    /\ fsDirs = {Parent(p) : p \in {q \in Paths : fsFiles[q] # Absent}} \ {Root}
    /\ settingsCID \in {NoCID, 1}
    /\ blobs = store
    /\ pinned = 1..Len(store)
    /\ clock = 1
    /\ calls = 0
    /\ edits = 0
    /\ faults = 0
    /\ pinata = [i \in Inst |-> FALSE]
    /\ currentCID = [i \in Inst |-> NoCID]
    /\ op = [i \in Inst |-> "none"]
    /\ pc = [i \in Inst |-> "idle"]
    /\ frame = [i \in Inst |-> NoFrame]
    /\ log = [i \in Inst |-> <<>>]
    /\ committed = <<>>
    /\ restored = <<>>

InitEngine == InitStore(ForeignBlobs)

Credentials == [settings : BOOLEAN, environment : BOOLEAN]

\* no JWT: undefined in the handlers, null from getPinataConfig()
NoConfig == "none"

\* cline.pinata.jwt is set in the settings
Configured == [settings |-> TRUE, environment |-> FALSE]

Init == InitEngine /\ credentials = Configured /\ scan = NoScan /\ ui = NoSubscriptions

(* ------------------------------ helpers ------------------------------- *)
Finish(i, cause) ==
    /\ pc' = [pc EXCEPT ![i] = "done"]
    /\ frame' = [frame EXCEPT ![i].cause = cause]

\* n further I/O operations fail
Fault(n) == faults + n <= MaxFaults /\ faults' = faults + n

Emit(i, events) == log' = [log EXCEPT ![i] = log[i] \o events]

(* ---------------------- the command handlers -------------------------- *)
\* let jwt = config.get("pinata.jwt"); if (!jwt) jwt = process.env.PINATA_JWT;
\* if (!jwt) jwt = "eyJ..."; if (!jwt) return
handlerJwt(cred) ==
    IF cred.settings THEN "settings"
    ELSE IF cred.environment THEN "environment"
    ELSE "bundled"

\* const pinataService = new PinataService(workspaceId): the handlers build
\* a new object for every command (fresh); the object can also be kept and
\* used again
Begin(i, fresh, operation, c) ==
    /\ handlerJwt(credentials) # NoConfig
    /\ calls' = calls + 1
    /\ pinata' = [pinata EXCEPT ![i] = IF fresh THEN FALSE ELSE @]
    /\ currentCID' = [currentCID EXCEPT ![i] = IF fresh THEN NoCID ELSE @]
    /\ op' = [op EXCEPT ![i] = operation]
    /\ pc' = [pc EXCEPT ![i] = "init"]
    /\ frame' = [frame EXCEPT ![i] =
                   [NoFrame EXCEPT !.arg = c,
                                   !.afterFailedInit = ( /\ ~fresh
                                                         /\ pc[i] = "done"
                                                         /\ frame[i].cause = "initialize" ),
                                   !.beforeCurrent = currentCID'[i],
                                   !.beforeSettings = settingsCID,
                                   !.beforeFiles = fsFiles,
                                   !.beforeDirs = fsDirs,
                                   !.beforePointer = IF currentCID'[i] # NoCID
                                                     THEN currentCID'[i]
                                                     ELSE settingsCID]]
    /\ log' = [log EXCEPT ![i] = <<>>]
    /\ UNCHANGED <<envVars, edits, faults, committed, restored>>
    /\ UNCHANGED fixed

\* the commands run are counted up to MaxCalls
Invoke(i, fresh, operation, c) == calls < MaxCalls /\ Begin(i, fresh, operation, c)

\* one command at a time: the next one is run when the last one has ended
Enter(i, fresh, operation, c) == Quiet /\ Invoke(i, fresh, operation, c)

\* PluginIPFSCommit: pinataService.commitToIPFS()
StartCommit(i, fresh) == Enter(i, fresh, "commit", NoCID)

\* PluginIPFSSync: pinataService.loadFromIPFS(cid), then syncFromIPFS(workspaceState);
\* the user types the CID: one of a stored blob, or one the store does not hold
StartRestore(i, fresh, c) == Enter(i, fresh, "restore", c)

(* ----------------------- ensureInitialized ---------------------------- *)
AfterInit(i) == IF op[i] = "commit" THEN "serialize" ELSE "fetch"

\* this.pinata after initialize(): assigned before testAuthentication runs
PinataAfterInitialize(authenticated) == TRUE

\* getPinataConfig(): the setting, then process.env.PINATA_JWT, then the JWT
\* written in the source; it has no path left that returns null
getPinataConfig(cred) ==
    IF cred.settings THEN "settings"
    ELSE IF cred.environment THEN "environment"
    ELSE "bundled"

ensureInitialized(i) ==
    /\ pc[i] = "init"
    /\ IF pinata[i]
       THEN /\ pc' = [pc EXCEPT ![i] = AfterInit(i)]
            /\ UNCHANGED <<pinata, frame, log, faults>>
       ELSE LET config == getPinataConfig(credentials) IN
            IF config = NoConfig
            THEN /\ Finish(i, "configuration")
                 /\ UNCHANGED <<pinata, log, faults>>
            ELSE \E authenticated \in BOOLEAN :
                   /\ pinata' = [pinata EXCEPT ![i] = PinataAfterInitialize(authenticated)]
                   /\ Emit(i, <<Event("testAuthentication", NoCID, authenticated)>>)
                   /\ Fault(IF authenticated THEN 0 ELSE 1)
                   /\ pc' = [pc EXCEPT ![i] = IF authenticated THEN AfterInit(i) ELSE "done"]
                   /\ frame' = [frame EXCEPT
                                  ![i].jwt = config,
                                  ![i].cause = IF authenticated THEN @ ELSE "initialize"]
    /\ UNCHANGED <<envVars, calls, edits, currentCID, op, committed, restored>>
    /\ UNCHANGED fixed

(* --------------------------- commitToIPFS ----------------------------- *)
\* if (this.currentCID) { unpin } else { ... }
AfterSerialize(current) == IF current # NoCID THEN "unpin" ELSE "upload"

\* serializeWorkspaceState(); an error of findFiles leaves through the outer
\* catch, an error of stat or readFile skips the entry
Serialize(i) ==
    /\ pc[i] = "serialize"
    /\ \/ /\ Finish(i, "serialize")
          /\ Fault(1)
          /\ Emit(i, <<Event("serialize", NoCID, FALSE)>>)
       \/ \E unreadable \in SUBSET SeqRange(findFiles(fsFiles)) :
            /\ Fault(Cardinality(unreadable))
            /\ frame' = [frame EXCEPT
                 ![i].snap = serializeWorkspaceState(fsFiles, unreadable, clock),
                 ![i].source = fsFiles,
                 ![i].skipped = unreadable,
                 ![i].diagnostics = CommitDiagnostics(unreadable)]
            /\ Emit(i, <<Event("serialize", NoCID, TRUE)>>)
            /\ pc' = [pc EXCEPT ![i] = AfterSerialize(currentCID[i])]
    /\ UNCHANGED <<envVars, calls, edits, pinata, currentCID, op, committed, restored>>
    /\ UNCHANGED fixed

\* the unpin without its try/catch
AfterUnpinUncaught(unpinned) == IF unpinned THEN "upload" ELSE "failed"

\* try { await this.pinata.unpin([this.currentCID]) } catch { console.warn }
AfterUnpin(unpinned) == "upload"

Unpin(i) ==
    /\ pc[i] = "unpin"
    /\ \E unpinned \in BOOLEAN :
         /\ Fault(IF unpinned THEN 0 ELSE 1)
         /\ pinned' = IF unpinned THEN pinned \ {currentCID[i]} ELSE pinned
         /\ Emit(i, <<Event("unpin", currentCID[i], unpinned)>>)
         /\ IF AfterUnpin(unpinned) = "upload"
            THEN /\ pc' = [pc EXCEPT ![i] = "upload"]
                 /\ UNCHANGED frame
            ELSE Finish(i, "unpin")
    /\ UNCHANGED <<fsFiles, fsDirs, settingsCID, blobs, clock, calls, edits,
                   pinata, currentCID, op, committed, restored>>
    /\ UNCHANGED fixed

\* the assignment moved in front of the upload's outcome
CurrentAssignedEarly(current, uploaded, cid) == cid

\* this.currentCID = result.IpfsHash is reached only when upload.file resolved
CurrentAfterUpload(current, uploaded, cid) == IF uploaded THEN cid ELSE current

\* result = await this.pinata.upload.file(...); this.currentCID = result.IpfsHash
\* The upload is a network round trip: the millisecond clock has advanced
\* when it returns.
Upload(i) ==
    /\ pc[i] = "upload"
    /\ LET cid == ContentId(blobs, frame[i].snap) IN
       \E uploaded \in BOOLEAN :
         /\ Fault(IF uploaded THEN 0 ELSE 1)
         /\ currentCID' = [currentCID EXCEPT
                             ![i] = CurrentAfterUpload(currentCID[i], uploaded, cid)]
         /\ IF uploaded
            THEN /\ blobs' = IF cid > Len(blobs) THEN Append(blobs, frame[i].snap) ELSE blobs
                 /\ pinned' = pinned \cup {cid}
                 /\ frame' = [frame EXCEPT ![i].newCID = cid]
                 /\ pc' = [pc EXCEPT ![i] = "persist"]
                 /\ Emit(i, <<Event("upload", cid, TRUE), Event("setCurrent", cid, TRUE)>>)
            ELSE /\ UNCHANGED <<blobs, pinned>>
                 /\ Finish(i, "upload")
                 /\ Emit(i, <<Event("upload", NoCID, FALSE)>>)
    /\ clock' = clock + 1
    /\ UNCHANGED <<fsFiles, fsDirs, settingsCID, calls, edits, pinata, op,
                   committed, restored>>
    /\ UNCHANGED fixed

\* a write that mixes the new value with the one already stored
SettingsMixed(old, updated, value) == IF updated THEN old + value ELSE old

\* the setting is never written
SettingsNeverWritten(old, updated, value) == old

\* await config.update("workspace.ipfsCID", value, Workspace)
SettingsAfterUpdate(old, updated, value) == IF updated THEN value ELSE old

PersistCommit(i) ==
    /\ pc[i] = "persist"
    /\ \E updated \in BOOLEAN :
         /\ Fault(IF updated THEN 0 ELSE 1)
         /\ settingsCID' = SettingsAfterUpdate(settingsCID, updated, frame[i].newCID)
         /\ Emit(i, <<Event("update", frame[i].newCID, updated)>>)
         /\ IF updated
            THEN /\ pc' = [pc EXCEPT ![i] = "notify"]
                 /\ UNCHANGED frame
            ELSE Finish(i, "update")
    /\ UNCHANGED <<fsFiles, fsDirs, blobs, pinned, clock, calls, edits, pinata,
                   currentCID, op, committed, restored>>
    /\ UNCHANGED fixed

\* the e-mail notification (errors swallowed), then return this.currentCID
ReturnCommit(i) ==
    /\ pc[i] = "notify"
    /\ pc' = [pc EXCEPT ![i] = "done"]
    /\ frame' = [frame EXCEPT ![i].result = currentCID[i]]
    /\ committed' = Append(committed, [cid |-> currentCID[i],
                                        source |-> frame[i].source,
                                        skipped |-> frame[i].skipped])
    /\ UNCHANGED <<envVars, calls, edits, faults, pinata, currentCID, op, log, restored>>
    /\ UNCHANGED fixed

(* --------------------------- loadFromIPFS ----------------------------- *)
\* a validation that forgets workspaceId
ValidVersionOnly(data) == Truthy(data.version)

\* if (!workspaceState.version || !workspaceState.workspaceId) throw
ValidFormat(data) == Truthy(data.version) /\ Truthy(data.workspaceId)

\* the assignment moved in front of the download
CurrentAssignedBeforeFetch(current, fetched, valid, cid) == cid

\* this.currentCID = cid is reached when gateways.get resolved and the
\* validation did not throw
CurrentAfterLoad(current, fetched, valid, cid) ==
    IF fetched /\ valid THEN cid ELSE current

\* a download of the recorded pointer in place of the CID asked for
RequestedPointer(cid, pointer) == IF pointer # NoCID THEN pointer ELSE cid

\* gateways.get(cid): the CID is the argument of loadFromIPFS
RequestedCID(cid, pointer) == cid

\* const data = await this.pinata.gateways.get(cid); validate; this.currentCID = cid
Fetch(i) ==
    /\ pc[i] = "fetch"
    /\ \E fetched \in BOOLEAN :
         LET cid == RequestedCID(frame[i].arg, getCurrentCID(i))
             valid == fetched /\ ValidFormat(blobs[cid])
         IN
         /\ fetched => cid \in 1..Len(blobs)
         /\ Fault(IF fetched \/ cid \notin 1..Len(blobs) THEN 0 ELSE 1)
         /\ Emit(i, <<Event("fetch", cid, fetched)>>)
         /\ currentCID' = [currentCID EXCEPT
                             ![i] = CurrentAfterLoad(@, fetched, valid, frame[i].arg)]
         /\ IF ~fetched
            THEN Finish(i, "fetch")
            ELSE IF ~valid
            THEN Finish(i, "invalidFormat")
            ELSE /\ frame' = [frame EXCEPT ![i].snap = blobs[cid]]
                 /\ pc' = [pc EXCEPT ![i] = "persistLoad"]
    /\ UNCHANGED <<envVars, calls, edits, pinata, op, committed, restored>>
    /\ UNCHANGED fixed

\* await config.update("workspace.ipfsCID", cid, Workspace); return workspaceState
PersistLoad(i) ==
    /\ pc[i] = "persistLoad"
    /\ \E updated \in BOOLEAN :
         /\ Fault(IF updated THEN 0 ELSE 1)
         /\ settingsCID' = SettingsAfterUpdate(settingsCID, updated, frame[i].arg)
         /\ Emit(i, <<Event("update", frame[i].arg, updated)>>)
         /\ IF updated
            THEN /\ pc' = [pc EXCEPT ![i] = "sync"]
                 /\ frame' = [frame EXCEPT ![i].loaded = TRUE]
            ELSE Finish(i, "update")
    /\ UNCHANGED <<fsFiles, fsDirs, blobs, pinned, clock, calls, edits, pinata,
                   currentCID, op, committed, restored>>
    /\ UNCHANGED fixed

(* --------------------------- syncFromIPFS ----------------------------- *)
LastOf(s) == IF s = <<>> THEN <<>> ELSE <<s[Len(s)]>>

Sync(i) ==
    /\ pc[i] = "sync"
    /\ \E failing \in SUBSET Dirs, unwritable \in SUBSET DOMAIN frame[i].snap.files :
         LET r == syncFromIPFS(fsFiles, fsDirs, frame[i].snap, failing, unwritable) IN
         /\ Fault(Cardinality(failing) + Cardinality(unwritable))
         /\ fsFiles' = r.files
         /\ fsDirs' = r.dirs
         /\ frame' = [frame EXCEPT ![i].synced = IF r.ok THEN "true" ELSE "false",
                                   ![i].written = r.written,
                                   ![i].failedWrite = r.failed,
                                   ![i].changed = (r.files # fsFiles),
                                   ![i].cause = IF r.ok THEN "none" ELSE "writeFile"]
         /\ Emit(i, r.trace)
         /\ restored' = IF r.ok
                        THEN LastOf(restored) \o
                             <<[cid |-> frame[i].arg, files |-> r.files,
                               changed |-> (r.files # fsFiles)]>>
                        ELSE <<>>
    /\ pc' = [pc EXCEPT ![i] = "done"]
    /\ UNCHANGED <<settingsCID, blobs, pinned, clock, calls, edits, pinata,
                   currentCID, op, committed>>
    /\ UNCHANGED fixed

(* ------------------------------ the user ------------------------------ *)
EditContents == {TextB, Absent}

\* the user saves, creates or deletes a file of the workspace; what the
\* finished invocations left behind is no longer the state of the root
Edit(p, c) ==
    /\ Quiet
    /\ edits < MaxEdits
    /\ c # fsFiles[p]
    /\ edits' = edits + 1
    /\ fsFiles' = [fsFiles EXCEPT ![p] = c]
    /\ fsDirs' = IF c = Absent THEN fsDirs ELSE fsDirs \cup ({Parent(p)} \ {Root})
    /\ restored' = <<>>
    /\ op' = [i \in Inst |-> "none"]
    /\ pc' = [i \in Inst |-> "idle"]
    /\ frame' = [i \in Inst |-> NoFrame]
    /\ log' = [i \in Inst |-> <<>>]
    /\ UNCHANGED <<settingsCID, blobs, pinned, clock, calls, faults, pinata, currentCID,
                   committed>>
    /\ UNCHANGED fixed

(* --------------------------- specification ---------------------------- *)
\* One service object, its invocations one after the other.
Service == {1}

Next ==
    \/ \E i \in Service, fresh \in BOOLEAN : StartCommit(i, fresh)
    \/ \E i \in Service, fresh \in BOOLEAN, c \in 1..(Len(blobs) + 1) :
          StartRestore(i, fresh, c)
    \/ \E i \in Service : ensureInitialized(i)
    \/ \E i \in Service : Serialize(i)
    \/ \E i \in Service : Unpin(i)
    \/ \E i \in Service : Upload(i)
    \/ \E i \in Service : PersistCommit(i)
    \/ \E i \in Service : ReturnCommit(i)
    \/ \E i \in Service : Fetch(i)
    \/ \E i \in Service : PersistLoad(i)
    \/ \E i \in Service : Sync(i)
    \/ \E p \in Paths, c \in EditContents : Edit(p, c)

Spec == Init /\ [][Next]_vars

(* ------------------------- a blob of other types ----------------------- *)
\* the same commands over a store that also holds a blob whose version is
\* not a string
InitTyped ==
    /\ InitStore(Append(ForeignBlobs, TypedBlob))
    /\ credentials = Configured
    /\ scan = NoScan
    /\ ui = NoSubscriptions

SpecTyped == InitTyped /\ [][Next]_vars

(* ----------------------- every configuration --------------------------- *)
\* the same commands with the JWT configured in the settings, in the
\* environment, in both or in neither
InitCredentials ==
    InitEngine /\ credentials \in Credentials /\ scan = NoScan /\ ui = NoSubscriptions

SpecCredentials == InitCredentials /\ [][Next]_vars

(* ------------------------- large workspaces ---------------------------- *)
engine == <<fsFiles, fsDirs, settingsCID, blobs, pinned, clock, calls, edits, faults,
            pinata, currentCID, op, pc, frame, log, committed, restored>>

InitScan ==
    /\ InitEngine
    /\ credentials = Configured
    /\ ui = NoSubscriptions
    /\ \E n \in 1..MaxRoots : \E rs \in [1..n -> Listings] :
          scan = [NoScan EXCEPT !.roots = rs]

\* one turn of for (const workspaceFolder of vscode.workspace.workspaceFolders)
ScanFolder ==
    /\ scan.pos < Len(scan.roots)
    /\ scan' = [scan EXCEPT
                  !.pos = @ + 1,
                  !.files = @ \cup ScannedKeys(scan.pos + 1, scan.roots[scan.pos + 1])]
    /\ UNCHANGED <<engine, credentials, ui>>

\* return { ..., files, folders }
ScanReturn ==
    /\ scan.pos = Len(scan.roots)
    /\ ~scan.returned
    /\ scan' = [scan EXCEPT !.returned = TRUE]
    /\ UNCHANGED <<engine, credentials, ui>>

NextScan == ScanFolder \/ ScanReturn

SpecScan == InitScan /\ [][NextScan]_vars

(* ------------------- two commits, then two restores -------------------- *)
\* The commit command, an edit of the workspace, the commit command again,
\* then the sync command twice, each time with one of the two CIDs returned.
StartFirstCommit(i, fresh) ==
    Quiet /\ calls = 0 /\ Begin(i, fresh, "commit", NoCID)

EditBetweenCommits(p, c) ==
    Len(committed) = 1 /\ Edit(p, c)

StartSecondCommit(i, fresh) ==
    Quiet /\ Len(committed) = 1 /\ edits > 0 /\ Begin(i, fresh, "commit", NoCID)

StartRestoreOfCommit(i, fresh, k) ==
    /\ Quiet
    /\ Len(committed) = 2
    /\ k \in 1..Len(committed)
    /\ Len(restored) < 2
    /\ Begin(i, fresh, "restore", committed[k].cid)

NextPointInTime ==
    \/ \E i \in Service, fresh \in BOOLEAN : StartFirstCommit(i, fresh)
    \/ \E p \in Paths, c \in EditContents : EditBetweenCommits(p, c)
    \/ \E i \in Service, fresh \in BOOLEAN : StartSecondCommit(i, fresh)
    \/ \E i \in Service, fresh \in BOOLEAN, k \in {1, 2} : StartRestoreOfCommit(i, fresh, k)
    \/ \E i \in Service : ensureInitialized(i)
    \/ \E i \in Service : Serialize(i)
    \/ \E i \in Service : Unpin(i)
    \/ \E i \in Service : Upload(i)
    \/ \E i \in Service : PersistCommit(i)
    \/ \E i \in Service : ReturnCommit(i)
    \/ \E i \in Service : Fetch(i)
    \/ \E i \in Service : PersistLoad(i)
    \/ \E i \in Service : Sync(i)

SpecPointInTime == Init /\ [][NextPointInTime]_vars

(* ------------------------ an abandoned commit -------------------------- *)
\* commitToIPFS takes no cancellation token and its progress notification is
\* not cancellable: a commit is abandoned when the extension host goes away
\* (window closed or reloaded) while the commit waits at one of its awaits.
\* What it has written to the workspace settings by then stays written.
AwaitBoundaries == {"init", "serialize", "unpin", "upload", "persist", "notify"}

Abandon(i) ==
    /\ op[i] = "commit"
    /\ pc[i] \in AwaitBoundaries
    /\ pc' = [pc EXCEPT ![i] = "abandoned"]
    /\ frame' = [frame EXCEPT ![i].cause = pc[i]]
    /\ UNCHANGED <<envVars, calls, edits, faults, pinata, currentCID, op, log,
                   committed, restored>>
    /\ UNCHANGED fixed

NextCancel ==
    \/ Next
    \/ \E i \in Service : Abandon(i)

SpecCancel == Init /\ [][NextCancel]_vars

(* ---------------------- plugin button subscriptions -------------------- *)
InitSubscriptions == Init

\* subscribeToPluginButtonClicked(controller, _, responseStream, requestId?)
subscribeToPluginButtonClicked(c, hasRequestId) ==
    /\ ui.issued < MaxRequests
    /\ LET stream == ui.issued + 1 IN
       ui' = [ui EXCEPT
                !.issued = stream,
                !.subs[c] = stream,
                !.latest[c] = stream,
                !.live = IF hasRequestId
                         THEN @ \cup {[id |-> stream, controller |-> c]}
                         ELSE @]
    /\ UNCHANGED <<engine, credentials, scan>>

\* the request registry runs the cleanup of a request whose connection closed
Cleanup(r) ==
    /\ r \in ui.live
    /\ ui' = [ui EXCEPT
                !.subs = MapAfterCleanup(@, r.controller, r.id),
                !.live = @ \ {r}]
    /\ UNCHANGED <<engine, credentials, scan>>

\* sendPluginButtonClickedEvent(controllerId)
sendPluginButtonClickedEvent(c, delivered) ==
    /\ IF ui.subs[c] = NoStream
       THEN ui' = [ui EXCEPT !.last = "noSubscription"]
       ELSE IF delivered
       THEN ui' = [ui EXCEPT !.last = "delivered"]
       ELSE ui' = [ui EXCEPT !.last = "error",
                             !.failed = @ \cup {ui.subs[c]},
                             !.subs[c] = NoStream]
    /\ UNCHANGED <<engine, credentials, scan>>

NextSubscriptions ==
    \/ \E c \in Controllers, hasRequestId \in BOOLEAN :
          subscribeToPluginButtonClicked(c, hasRequestId)
    \/ \E r \in ui.live : Cleanup(r)
    \/ \E c \in Controllers, delivered \in BOOLEAN :
          sendPluginButtonClickedEvent(c, delivered)

SpecSubscriptions == InitSubscriptions /\ [][NextSubscriptions]_vars

(* ----------------------- two commands at once -------------------------- *)
\* The command is run twice before the first run has ended: each handler
\* builds its own PinataService for the same workspace, and nothing orders
\* the two runs; they interleave wherever one of them awaits.  this.currentCID
\* of a new object is null, so neither run unpins.
StartConcurrentCommit(i) == pc[i] = "idle" /\ Invoke(i, TRUE, "commit", NoCID)

NextConcurrent ==
    \/ \E i \in Inst : StartConcurrentCommit(i)
    \/ \E i \in Inst : ensureInitialized(i)
    \/ \E i \in Inst : Serialize(i)
    \/ \E i \in Inst : Upload(i)
    \/ \E i \in Inst : PersistCommit(i)
    \/ \E i \in Inst : ReturnCommit(i)

SpecConcurrent == Init /\ [][NextConcurrent]_vars


(* ------------------------------ claims -------------------------------- *)
Commits == {i \in Inst : op[i] = "commit"}
Restores == {i \in Inst : op[i] = "restore"}

Issued(i, e) == {k \in 1..Len(log[i]) : log[i][k].e = e}
Succeeded(i, e) == {k \in Issued(i, e) : log[i][k].ok}
Failed(i, e) == {k \in Issued(i, e) : ~log[i][k].ok}

\* C1: a commit whose upload fails leaves this.currentCID, the persisted
\* workspace.ipfsCID and getCurrentCID() as they were before the commit, and
\* whenever a commit has changed either of them, the new value is a CID that
\* a successful upload of this commit returned before.
AtomicCommit ==
    \A i \in Commits :
      /\ (pc[i] = "done" /\ Failed(i, "upload") # {}) =>
            /\ currentCID[i] = frame[i].beforeCurrent
            /\ settingsCID = frame[i].beforeSettings
            /\ getCurrentCID(i) = frame[i].beforePointer
      /\ \A k \in Succeeded(i, "setCurrent") \cup Succeeded(i, "update") :
            \E u \in Succeeded(i, "upload") : u < k /\ log[i][u].cid = log[i][k].cid
      /\ currentCID[i] # frame[i].beforeCurrent =>
            \E u \in Succeeded(i, "upload") : log[i][u].cid = currentCID[i]
      /\ settingsCID # frame[i].beforeSettings =>
            \E u \in Succeeded(i, "upload") : log[i][u].cid = settingsCID

\* a commit on an object that holds a pointer has ended with a failed upload
AtomicCommitWitness ==
    \E i \in Commits :
      /\ pc[i] = "done"
      /\ Failed(i, "upload") # {}
      /\ frame[i].beforeCurrent # NoCID
      /\ frame[i].beforeSettings # NoCID

\* C2: when a commit has returned a CID, getCurrentCID() is that CID, the
\* workspace setting is that CID, it is the CID of the latest successful
\* commit, and no earlier successful commit returned it.
PointerInvariant ==
    \A i \in Commits :
      (pc[i] = "done" /\ frame[i].result # NoCID) =>
         /\ getCurrentCID(i) = frame[i].result
         /\ settingsCID = frame[i].result
         /\ committed # <<>>
         /\ committed[Len(committed)].cid = frame[i].result
         /\ \A k \in 1..(Len(committed) - 1) : committed[k].cid # frame[i].result

\* the second of two successful commits has returned
PointerInvariantWitness ==
    \E i \in Commits :
      /\ pc[i] = "done"
      /\ frame[i].result # NoCID
      /\ Len(committed) >= 2

\* C3: in a commit, an unpin is issued only after the upload has succeeded
\* and the pointer has been set (in memory and in the settings).
UnpinAfterPointerSwap ==
    \A i \in Commits :
      \A k \in Issued(i, "unpin") :
         /\ \E s \in Succeeded(i, "serialize") : s < k
         /\ \E u \in Succeeded(i, "upload") : u < k
         /\ \E c \in Succeeded(i, "setCurrent") : c < k
         /\ \E w \in Succeeded(i, "update") : w < k

\* C4: a failed unpin never ends the commit: the commit goes on to the
\* upload, and when the upload and the settings update succeed it returns the
\* new CID, which is then the pointer.
UnpinFailureSwallowed ==
    \A i \in Commits :
      Failed(i, "unpin") # {} =>
         /\ frame[i].cause # "unpin"
         /\ pc[i] = "done" => Issued(i, "upload") # {}
         /\ (pc[i] = "done" /\ Succeeded(i, "upload") # {} /\ Succeeded(i, "update") # {}) =>
               /\ frame[i].result # NoCID
               /\ frame[i].result = frame[i].newCID
               /\ getCurrentCID(i) = frame[i].newCID
               /\ settingsCID = frame[i].newCID

\* a commit whose unpin failed has returned its new CID
UnpinFailureSwallowedWitness ==
    \E i \in Commits :
      /\ pc[i] = "done"
      /\ Failed(i, "unpin") # {}
      /\ frame[i].result # NoCID
      /\ frame[i].result = frame[i].newCID

\* C5: a successful commit issues unpin(P) for the pointer value P recorded
\* for the workspace before it, and issues no unpin when none was recorded.
PreviousUnpinned ==
    \A i \in Commits :
      (pc[i] = "done" /\ frame[i].result # NoCID) =>
         IF frame[i].beforePointer # NoCID
         THEN \E k \in Issued(i, "unpin") : log[i][k].cid = frame[i].beforePointer
         ELSE Issued(i, "unpin") = {}


CommittedCIDs == {committed[k].cid : k \in 1..Len(committed)}

TextFilesOf(fs) == {p \in Paths : fs[p] # Absent}

NoBinary(fs) == \A p \in TextFilesOf(fs) : isTextFile(Utf8Decode(fs[p]))

\* C6: after a commit of the workspace S, a restore of the returned CID that
\* runs to the end leaves, for every path of the snapshot's files, a file whose
\* text is the snapshot's text; and when S has no binary file, at most FileCap
\* files and every entry was readable, these are all the files of S with the
\* text they had at the commit.
RoundTrip ==
    \A i \in Restores :
      (pc[i] = "done" /\ frame[i].synced = "true") =>
         \A k \in 1..Len(committed) :
            committed[k].cid = frame[i].arg =>
               LET S == blobs[frame[i].arg]
                   W == committed[k].source
               IN  /\ \A p \in DOMAIN S.files :
                         /\ fsFiles[p] # Absent
                         /\ Utf8Decode(fsFiles[p]) = S.files[p]
                   /\ ( /\ NoBinary(W)
                        /\ Cardinality(TextFilesOf(W)) <= FileCap
                        /\ committed[k].skipped = {} ) =>
                         /\ DOMAIN S.files = TextFilesOf(W)
                         /\ \A p \in TextFilesOf(W) :
                               Utf8Decode(fsFiles[p]) = Utf8Decode(W[p])

\* a committed snapshot with files was restored over a root that had changed
RoundTripWitness ==
    \E i \in Restores :
      /\ pc[i] = "done"
      /\ frame[i].synced = "true"
      /\ frame[i].arg \in CommittedCIDs
      /\ DOMAIN blobs[frame[i].arg].files # {}
      /\ frame[i].changed

\* C7: two restores of the same CID that both run to the end, with no edit of
\* the root in between, leave the same file contents.
IdempotentRestore ==
    (Len(restored) = 2 /\ restored[1].cid = restored[2].cid) =>
        restored[1].files = restored[2].files

\* the same CID was restored twice and the first restore altered the root
IdempotentRestoreWitness ==
    /\ Len(restored) = 2
    /\ restored[1].cid = restored[2].cid
    /\ restored[1].changed

LacksField(data) == data.version = "absent" \/ data.workspaceId = "absent"

\* C8: when the fetched blob lacks workspaceId or version, loadFromIPFS ends
\* with the invalid-format error and returns no workspace state, syncFromIPFS
\* is not called, no directory is created and no file is written.
InvalidBlobNotMaterialized ==
    \A i \in Restores :
      (Succeeded(i, "fetch") # {} /\ LacksField(blobs[frame[i].arg])) =>
         /\ pc[i] = "done"
         /\ frame[i].cause = "invalidFormat"
         /\ ~frame[i].loaded
         /\ frame[i].synced = "none"
         /\ Issued(i, "mkdir") = {} /\ Issued(i, "write") = {}
         /\ fsFiles = frame[i].beforeFiles
         /\ fsDirs = frame[i].beforeDirs

\* a blob without workspaceId was fetched
InvalidBlobWitness ==
    \E i \in Restores :
      /\ pc[i] = "done"
      /\ Succeeded(i, "fetch") # {}
      /\ blobs[frame[i].arg].workspaceId = "absent"

\* C9: when the write of one file fails during materialization, every other
\* file of the snapshot is written, the operation is not aborted and the
\* failure is in the diagnostics returned.
WriteFailuresNotFatal ==
    \A i \in Restores :
      (pc[i] = "done" /\ frame[i].failedWrite # {}) =>
         /\ (DOMAIN frame[i].snap.files) \ frame[i].failedWrite \subseteq frame[i].written
         /\ frame[i].synced = "true"
         /\ frame[i].failedWrite \subseteq frame[i].diagnostics

\* C10: when reading an enumerated entry fails, the entry is skipped, every
\* other text file is in the snapshot, the commit returns a CID, and the
\* skipped entry is in the diagnostics returned with the CID.
ReadErrorsReported ==
    \A i \in Commits :
      (pc[i] = "done" /\ frame[i].skipped # {} /\ frame[i].cause = "none") =>
         /\ frame[i].result # NoCID
         /\ \A p \in TextFilesOf(frame[i].source) \ frame[i].skipped :
               isTextFile(Utf8Decode(frame[i].source[p])) => p \in DOMAIN frame[i].snap.files
         /\ frame[i].skipped \subseteq frame[i].diagnostics

UploadedBy(i) == {log[i][k].cid : k \in Succeeded(i, "upload")}

\* C11: two commits of the same workspace that interleave at their awaits:
\* the workspace setting only ever changes to a CID that one of the two has
\* uploaded, and once both have ended and one of them has returned a CID, the
\* setting and getCurrentCID() of both objects are CIDs uploaded by one of the
\* two, and the blob stored under the setting is the snapshot that commit
\* serialized, whole.
ConcurrentCommits ==
    LET U == UNION {UploadedBy(i) : i \in Commits} IN
    /\ \A i \in Commits : settingsCID # frame[i].beforeSettings => settingsCID \in U
    /\ ( /\ \A i \in Inst : i \in Commits /\ pc[i] = "done"
         /\ \E i \in Inst : frame[i].result # NoCID ) =>
          /\ settingsCID \in U
          /\ \A i \in Inst : getCurrentCID(i) \in U /\ currentCID[i] \in U \cup {NoCID}
          /\ \E i \in Inst : /\ settingsCID \in UploadedBy(i)
                              /\ blobs[settingsCID] = frame[i].snap

\* both commits have returned a CID, the two CIDs differ, and the commit that
\* uploaded first wrote the setting last
ConcurrentCommitsWitness ==
    \E i \in Inst, j \in Inst :
      /\ i # j
      /\ pc[i] = "done" /\ pc[j] = "done"
      /\ op[i] = "commit" /\ op[j] = "commit"
      /\ frame[i].result # NoCID /\ frame[j].result # NoCID
      /\ frame[i].result < frame[j].result
      /\ settingsCID = frame[i].result

\* C12: a restore, whether it succeeds or fails, leaves the pointer of the
\* workspace as it was: this.currentCID, the workspace setting and
\* getCurrentCID() have the values they had when the restore started.
RestoreKeepsPointer ==
    \A i \in Restores :
      /\ currentCID[i] = frame[i].beforeCurrent
      /\ settingsCID = frame[i].beforeSettings
      /\ getCurrentCID(i) = frame[i].beforePointer

TextEntries(listing) == Cardinality({k \in 1..Len(listing) : listing[k] = "text"})

\* C13: serializing one workspace folder that holds ManyFiles (150) readable
\* text files yields exactly min(150, FileCap) = 100 entries in files,
\* whatever else findFiles lists and in whatever order.
CapEnforced ==
    ( /\ scan.returned
      /\ Len(scan.roots) = 1
      /\ TextEntries(scan.roots[1]) = ManyFiles ) =>
        Cardinality(scan.files) = Min(ManyFiles, FileCap)

HasNullByte(bytes) == \E k \in 1..Len(bytes) : bytes[k] = 0

\* C14: in every commit, no key of the snapshot's files is a file whose
\* bytes, as scanned, contain a null byte, and no text in files contains
\* U+0000; the same holds of the blob stored under every CID a commit returned.
BinaryExcluded ==
    /\ \A i \in Commits : \A p \in DOMAIN frame[i].snap.files :
          /\ ~HasNullByte(frame[i].source[p])
          /\ \A k \in 1..Len(frame[i].snap.files[p]) : frame[i].snap.files[p][k] # 0
    /\ \A c \in 1..Len(committed) : \A p \in DOMAIN blobs[committed[c].cid].files :
          ~HasNullByte(committed[c].source[p])

\* a commit of a workspace with a text file and a binary file has returned a
\* CID, the text file is in files
BinaryExcludedWitness ==
    \E i \in Commits :
      /\ pc[i] = "done"
      /\ frame[i].result # NoCID
      /\ \E p \in Paths : frame[i].source[p] # Absent /\ HasNullByte(frame[i].source[p])
      /\ DOMAIN frame[i].snap.files # {}

\* C15: when gateways.get does not return the blob, the restore ends with a
\* failure (loadFromIPFS returns null, the handler throws), syncFromIPFS is
\* not called, no directory is created and no file written under the root,
\* and this.currentCID, the workspace setting and getCurrentCID() are as they
\* were.
FailedFetchRestore ==
    \A i \in Restores :
      Failed(i, "fetch") # {} =>
         /\ pc[i] = "done"
         /\ frame[i].cause = "fetch"
         /\ ~frame[i].loaded
         /\ frame[i].synced = "none"
         /\ Issued(i, "mkdir") = {} /\ Issued(i, "write") = {}
         /\ fsFiles = frame[i].beforeFiles
         /\ fsDirs = frame[i].beforeDirs
         /\ currentCID[i] = frame[i].beforeCurrent
         /\ settingsCID = frame[i].beforeSettings
         /\ getCurrentCID(i) = frame[i].beforePointer

\* a restore on an object that holds a pointer has ended with a failed fetch
\* of another CID
FailedFetchRestoreWitness ==
    \E i \in Restores :
      /\ pc[i] = "done"
      /\ Failed(i, "fetch") # {}
      /\ frame[i].beforeCurrent # NoCID
      /\ frame[i].arg # frame[i].beforeCurrent

BlobStoreEvents == {"testAuthentication", "upload", "fetch", "unpin"}

\* C16: with no JWT in the settings and none in the environment, a commit
\* or restore issues no authentication test, upload, fetch or unpin, does not
\* use the JWT written in the source, and ends with the configuration error.
CredentialsFailClosed ==
    (~credentials.settings /\ ~credentials.environment) =>
       \A i \in Commits \cup Restores :
          /\ \A k \in 1..Len(log[i]) : log[i][k].e \notin BlobStoreEvents
          /\ frame[i].jwt # "bundled"
          /\ pc[i] = "done" => frame[i].cause = "configuration"

\* C17: after two successful commits with an edit of the workspace between
\* them, the two CIDs returned differ; a restore of either CID in which no
\* operation fails ends with syncFromIPFS returning true, and a restore that
\* ran to the end leaves every file of its snapshot with the text the file
\* had when that commit scanned it, whichever restore is run first.
PointInTimeRestore ==
    Len(committed) = 2 =>
       /\ committed[1].cid # committed[2].cid
       /\ \A i \in Restores :
            pc[i] = "done" =>
              /\ (\A k \in 1..Len(log[i]) : log[i][k].ok) => frame[i].synced = "true"
              /\ frame[i].synced = "true" =>
                   \A k \in 1..Len(committed) :
                      committed[k].cid = frame[i].arg =>
                         \A p \in DOMAIN blobs[frame[i].arg].files :
                            /\ fsFiles[p] # Absent
                            /\ Utf8Decode(fsFiles[p]) = Utf8Decode(committed[k].source[p])

\* the first commit was restored, then the second, and each restore altered
\* the files of the root
PointInTimeRestoreWitness ==
    /\ Len(committed) = 2
    /\ Len(restored) = 2
    /\ restored[1].cid = committed[1].cid
    /\ restored[2].cid = committed[2].cid
    /\ restored[1].changed
    /\ restored[2].changed

\* C18: a commit abandoned at one of its awaits, which has not returned a
\* CID, leaves the pointer of the workspace as it was when the commit
\* started: the workspace setting, this.currentCID and getCurrentCID().
AbandonedCommitKeepsPointer ==
    \A i \in Commits :
      (pc[i] = "abandoned" /\ frame[i].result = NoCID) =>
         /\ settingsCID = frame[i].beforeSettings
         /\ currentCID[i] = frame[i].beforeCurrent
         /\ getCurrentCID(i) = frame[i].beforePointer

Least(S) == CHOOSE k \in S : \A j \in S : k <= j

\* C19: in every restore, the directory creations for snapshot.folders are
\* issued, in their order, before the first file write; the write of each
\* file comes right after the creation of its parent directory; and every
\* file that was written has a parent directory that exists.
MaterializationOrder ==
    \A i \in Restores :
      LET folders == frame[i].snap.folders
          mkdirs == Issued(i, "mkdir")
          writes == Issued(i, "write")
      IN  /\ writes # {} =>
                /\ Cardinality(mkdirs) >= Len(folders) + 1
                /\ \A k \in 1..Len(folders) :
                      /\ log[i][Least(mkdirs) + k - 1].e = "mkdir"
                      /\ log[i][Least(mkdirs) + k - 1].path = folders[k]
                      /\ Least(mkdirs) + k - 1 < Least(writes)
          /\ \A w \in writes :
                /\ w - 1 \in mkdirs
                /\ log[i][w - 1].path = Parent(log[i][w].path)
                /\ log[i][w].ok =>
                      \/ Parent(log[i][w].path) = Root
                      \/ Parent(log[i][w].path) \in fsDirs

\* a snapshot with a folder entry and a file in a subdirectory was restored
\* into a root where that directory did not exist
MaterializationOrderWitness ==
    \E i \in Restores :
      /\ pc[i] = "done"
      /\ frame[i].synced = "true"
      /\ frame[i].snap.folders # <<>>
      /\ "sub/b.txt" \in frame[i].written
      /\ "sub" \notin frame[i].beforeDirs

\* C20: whatever the number of workspace folders and of files in them, the
\* files of the snapshot that serializeWorkspaceState returns has at most
\* FileCap (100) entries.
FileCapInvariant ==
    scan.returned => Cardinality(scan.files) <= FileCap

WrongType(data) == data.version = "number" \/ data.workspaceId = "number"

\* C21: when the fetched blob has a version or workspaceId that is present
\* but not a string, the restore ends with the invalid-format error, returns
\* no workspace state, and no directory is created and no file written.
TypedValidation ==
    \A i \in Restores :
      (Succeeded(i, "fetch") # {} /\ WrongType(blobs[frame[i].arg])) =>
         /\ pc[i] = "done"
         /\ frame[i].cause = "invalidFormat"
         /\ ~frame[i].loaded
         /\ frame[i].synced = "none"
         /\ Issued(i, "mkdir") = {} /\ Issued(i, "write") = {}

\* C22: when commitToIPFS has returned null, whatever step failed,
\* getCurrentCID() returns what it returned before the call.
FailedCommitKeepsPointer ==
    \A i \in Commits :
      (pc[i] = "done" /\ frame[i].result = NoCID) =>
         getCurrentCID(i) = frame[i].beforePointer

DataEvents == {"upload", "fetch", "unpin"}

\* C23: a commit or restore on an object whose last call ended because the
\* authentication test failed runs the authentication test again before it
\* issues an upload, a fetch or an unpin.
FailedInitNotRemembered ==
    \A i \in Commits \cup Restores :
      frame[i].afterFailedInit =>
         \A k \in 1..Len(log[i]) :
            log[i][k].e \in DataEvents =>
               \E a \in Issued(i, "testAuthentication") : a < k

\* C24: the cleanup of an earlier request does not remove the subscription
\* of a later one: while the last request of a controller is in the registry
\* and its stream has not thrown, the map holds that stream for the
\* controller, so an event sent to the controller reaches it.
CleanupRemovesOwnSubscription ==
    \A c \in Controllers :
      ( /\ ui.latest[c] # NoStream
        /\ [id |-> ui.latest[c], controller |-> c] \in ui.live
        /\ ui.latest[c] \notin ui.failed ) =>
          ui.subs[c] = ui.latest[c]

====
